---- MODULE Spec2Model ----
(***************************************************************************)
(* Model of Extra/convert.py: the weight exporter that loads a pretrained  *)
(* state dict, renames its keys (dissect) and writes, per tensor, a        *)
(* directory holding metadata.json and weights.bin (main).                 *)
(*                                                                         *)
(* Tensor names, path segments and file names are TLA+ strings; a path is  *)
(* the sequence of its segments; a file's content is the sequence of its   *)
(* bytes (weights.bin) or of its JSON members (metadata.json).             *)
(***************************************************************************)
EXTENDS Integers, Sequences, FiniteSets, TLC

VARIABLES
    argv,            \* sys.argv of the running process
    hub,             \* the checkpoint the model hub serves: <<[name, tensor]>>
    state_dict,      \* dissect: the loaded state dict
    new_state_dict,  \* dissect: the renamed state dict, in insertion order
    pc,              \* position of the process
    i,               \* main: 1-based index of the loop's current key
    lens,            \* main: the list lens
    metadata,        \* main: the dict metadata of the current tensor
    bytes,           \* main: the bytes of the current tensor
    dirs,            \* file system: the directories that exist
    files,           \* file system: path -> content of every regular file
    stdout,          \* what the process printed
    err,             \* the exception that ended the process, "" if none
    run,             \* number of the current invocation of the script
    completed,       \* invocations that ran to the end of main
    snapshot         \* the files as the last completed invocation left them

vars == <<argv, hub, state_dict, new_state_dict, pc, i, lens, metadata, bytes,
          dirs, files, stdout, err, run, completed, snapshot>>

----------------------------------------------------------------------------
(* Bounds of the model *)

MaxTensors == 2
MaxRuns == 2
MaxFrags == 3

----------------------------------------------------------------------------
(* Strings *)

Range(s) == {s[k] : k \in DOMAIN s}

\* Python's str.replace(old, new) for a non-empty old: every non-overlapping
\* occurrence, scanning from the left.
RECURSIVE Replace(_, _, _)
Replace(s, old, new) ==
    IF Len(s) < Len(old) THEN s
    ELSE IF SubSeq(s, 1, Len(old)) = old
         THEN new \o Replace(SubSeq(s, Len(old) + 1, Len(s)), old, new)
         ELSE SubSeq(s, 1, 1) \o Replace(SubSeq(s, 2, Len(s)), old, new)

\* s.startswith(sub)
StartsWith(s, sub) == Len(s) >= Len(sub) /\ SubSeq(s, 1, Len(sub)) = sub

\* Python's `sub in s`.
Contains(s, sub) ==
    \E k \in 1..(Len(s) - Len(sub) + 1) : SubSeq(s, k, k + Len(sub) - 1) = sub

\* s.split(sep) for a one-character sep.
RECURSIVE Split(_, _)
Split(s, sep) ==
    IF \A k \in 1..Len(s) : SubSeq(s, k, k) # sep THEN <<s>>
    ELSE LET at == CHOOSE k \in 1..Len(s) :
                       /\ SubSeq(s, k, k) = sep
                       /\ \A j \in 1..(k - 1) : SubSeq(s, j, j) # sep
         IN <<SubSeq(s, 1, at - 1)>> \o Split(SubSeq(s, at + 1, Len(s)), sep)

----------------------------------------------------------------------------
(* dissect: key renaming *)

\* new_key = key.replace('backbone.', '')
Normalize(key) == Replace(key, "backbone.", "")

\* d[key] = value on a dict kept as a sequence of entries in insertion order:
\* an existing key keeps its position and takes the new value.
DictSet(d, key, value) ==
    IF \E k \in 1..Len(d) : d[k].key = key
    THEN [k \in 1..Len(d) |->
              IF d[k].key = key THEN [key |-> key, tensor |-> value] ELSE d[k]]
    ELSE Append(d, [key |-> key, tensor |-> value])

RECURSIVE Rename(_, _)
Rename(sd, acc) ==
    IF sd = <<>> THEN acc
    ELSE Rename(Tail(sd), DictSet(acc, Normalize(Head(sd).name), Head(sd).tensor))

----------------------------------------------------------------------------
(* main: precision, metadata, payload *)

Markers == <<"embedding", "lm_head", "in_proj", "out_proj", "x_proj">>

SelectDtype(key) ==
    IF \E m \in Range(Markers) : Contains(key, m) THEN "f2" ELSE "f4"

\* Every element taken as 4 bytes wide.
ItemSizeFull(dtype) == 4

\* The itemsize of the numpy dtype 'f2' or 'f4'.
ItemSize(dtype) == IF dtype = "f2" THEN 2 ELSE 4

RECURSIVE Pow2(_)
Pow2(n) == IF n = 0 THEN 1 ELSE 2 * Pow2(n - 1)

RECURSIVE Log2(_)
Log2(v) == IF v < 2 THEN 0 ELSE 1 + Log2(v \div 2)

\* The IEEE-754 bit pattern of the small non-negative integer v in binary16
\* ("f2": 5 exponent bits, 10 fraction bits) or binary32 ("f4": 8 and 23).
FloatBits(v, dtype) ==
    LET mbits == IF dtype = "f2" THEN 10 ELSE 23
        bias  == IF dtype = "f2" THEN 15 ELSE 127
        e     == Log2(v)
    IN IF v = 0 THEN 0
       ELSE (e + bias) * Pow2(mbits) + (v - Pow2(e)) * Pow2(mbits - e)

\* One element in native (little-endian) byte order.
ElementBytes(v, dtype) ==
    [k \in 1..ItemSize(dtype) |-> (FloatBits(v, dtype) \div Pow2(8 * (k - 1))) % 256]

\* ndarray.tobytes() of the converted array: the elements in C order.
RECURSIVE ToBytes(_, _)
ToBytes(data, dtype) ==
    IF data = <<>> THEN <<>>
    ELSE ElementBytes(Head(data), dtype) \o ToBytes(Tail(data), dtype)

\* Tensor.numpy() has no numpy type for bfloat16 and raises TypeError.
NumpyRaises(tensor) == tensor.dtype = "bfloat16"

Is16bit(dtype) == dtype = "f2"

Metadata(key, tensor) ==
    [key |-> key, shape |-> tensor.shape, is16bit |-> Is16bit(SelectDtype(key))]

\* json.dumps of the metadata dict: its members in insertion order.
Dumps(m) ==
    << [member |-> "key", value |-> m.key],
       [member |-> "shape", value |-> m.shape],
       [member |-> "is16bit", value |-> m.is16bit] >>

----------------------------------------------------------------------------
(* Paths and files *)

\* The key's dots taken as separators.
SepDot == "."

\* The separator of path strings.
Sep == "/"

\* The components pathlib keeps of a path string.
Parts(s) == SelectSeq(Split(s, Sep), LAMBDA c : c # "" /\ c # ".")

\* Path / str
PathJoin(base, s) ==
    IF Len(s) > 0 /\ SubSeq(s, 1, 1) = Sep THEN <<Sep>> \o Parts(s)
    ELSE base \o Parts(s)

ScriptDir == <<"Extra">>

FolderName(model_name, key) ==
    PathJoin(PathJoin(PathJoin(ScriptDir, "converted"), model_name), key)

MetaPath(folder) == folder \o <<"metadata.json">>

WeightsPath(folder) == folder \o <<"weights.bin">>

Ancestors(p) == {SubSeq(p, 1, k) : k \in 1..Len(p)}

\* open(path, 'w') / open(path, 'wb') on the content a file had (<<>> when
\* it did not exist): the file is truncated.
Truncate(content) == <<>>

\* write(data) at offset 0 of an open file holding content.
WriteAt(content, data) ==
    data \o SubSeq(content, Len(data) + 1, Len(content))

Content(p) == IF p \in DOMAIN files THEN files[p] ELSE <<>>

Put(p, content) ==
    [q \in DOMAIN files \cup {p} |-> IF q = p THEN content ELSE files[q]]

----------------------------------------------------------------------------
(* Inputs *)

\* State-dict keys: dotted parameter paths, with and without the prefix.
RunNames ==
    { "backbone.embedding.weight", "embedding.weight", "norm.weight", "a.b.c" }

\* A tensor: its shape, its torch dtype and its elements in C order.
Tensors ==
    { [shape |-> <<>>,     dtype |-> "float32",  data |-> <<1>>],
      [shape |-> <<1, 2>>, dtype |-> "float16",  data |-> <<2, 1>>],
      [shape |-> <<2>>,    dtype |-> "int64",    data |-> <<1, 2>>],
      [shape |-> <<1>>,    dtype |-> "bfloat16", data |-> <<1>>] }

Entries == [name : RunNames, tensor : Tensors]

\* A checkpoint is a dict: no name twice.
Mappings ==
    { m \in UNION {[1..n -> Entries] : n \in 0..MaxTensors} :
          \A a, b \in DOMAIN m : a # b => m[a].name # m[b].name }

ModelName == "mamba-130m"

Argvs == { <<"convert.py">>, <<"convert.py", ModelName>> }

\* Names assembled from pieces of the prefix and of the markers.
Frags ==
    { "backbone.", "back", "bone.", "x", "X", ".", "in", "out", "_proj",
      "embedding", "lm_head" }

RECURSIVE Join(_)
Join(f) == IF f = <<>> THEN "" ELSE Head(f) \o Join(Tail(f))

FragNames == { Join(f) : f \in UNION {[1..n -> Frags] : n \in 1..MaxFrags} }

----------------------------------------------------------------------------
(* The process *)

Usage ==
    "Please provide one of: mamba-130m, mamba-370m, mamba-790m, mamba-1.4b, mamba-2.8b."

\* The payload written before the metadata.
StepAfterWeightsFirst(step) ==
    CASE step = "makedirs"      -> "convert"
      [] step = "convert"       -> "open_weights"
      [] step = "open_weights"  -> "write_weights"
      [] step = "write_weights" -> "open_meta"
      [] step = "open_meta"     -> "write_meta"
      [] step = "write_meta"    -> "next"

\* The order of the steps of one iteration of main's loop.
StepAfter(step) ==
    CASE step = "makedirs"      -> "convert"
      [] step = "convert"       -> "open_meta"
      [] step = "open_meta"     -> "write_meta"
      [] step = "write_meta"    -> "open_weights"
      [] step = "open_weights"  -> "write_weights"
      [] step = "write_weights" -> "next"

Goto(step) ==
    IF StepAfter(step) = "next"
    THEN /\ i' = i + 1
         /\ pc' = IF i + 1 > Len(new_state_dict) THEN "done" ELSE "makedirs"
    ELSE /\ i' = i
         /\ pc' = StepAfter(step)

Raise(e) == pc' = "raised" /\ err' = e

Key == new_state_dict[i].key

Data == new_state_dict[i].tensor

Folder == FolderName(argv[2], Key)

\* The exit status of the process once it has ended: main's return value is
\* dropped, an uncaught exception ends the interpreter with status 1.
ExitStatus == IF pc = "raised" THEN 1 ELSE 0

Ended == pc \in {"done", "raised"}

Main ==
    /\ pc = "main"
    /\ IF Len(argv) < 1
       THEN /\ stdout' = Append(stdout, Usage)
            /\ pc' = "done"
            /\ err' = err
       ELSE IF Len(argv) < 2
       THEN /\ Raise("IndexError")
            /\ stdout' = stdout
       ELSE /\ stdout' = Append(stdout, "Model to convert: " \o argv[2])
            /\ pc' = "dissect"
            /\ err' = err
    /\ UNCHANGED <<argv, hub, state_dict, new_state_dict, i, lens, metadata,
                   bytes, dirs, files, run, completed, snapshot>>

Dissect ==
    /\ pc = "dissect"
    /\ state_dict' = hub
    /\ new_state_dict' = Rename(hub, <<>>)
    /\ lens' = <<>>
    /\ i' = 1
    /\ pc' = IF Rename(hub, <<>>) = <<>> THEN "done" ELSE "makedirs"
    /\ UNCHANGED <<argv, hub, metadata, bytes, dirs, files, stdout, err, run,
                   completed, snapshot>>

\* os.makedirs without exist_ok: an existing directory is an error too.
MakedirsErrorNoExistOk(folder) ==
    IF folder \in DOMAIN files \/ folder \in dirs THEN "FileExistsError"
    ELSE IF \E a \in Ancestors(folder) : a \in DOMAIN files
         THEN "NotADirectoryError"
         ELSE ""

\* The exception of os.makedirs(folder, exist_ok=True), "" when it succeeds:
\* an existing directory is accepted, a regular file in the way is not.
MakedirsError(folder) ==
    IF folder \in DOMAIN files THEN "FileExistsError"
    ELSE IF \E a \in Ancestors(folder) : a \in DOMAIN files
         THEN "NotADirectoryError"
         ELSE ""

Makedirs ==
    /\ pc = "makedirs"
    /\ lens' = Append(lens, Len(Data.shape))
    /\ IF MakedirsError(Folder) # ""
       THEN /\ Raise(MakedirsError(Folder))
            /\ UNCHANGED <<dirs, i>>
       ELSE /\ dirs' = dirs \cup Ancestors(Folder)
            /\ Goto("makedirs")
            /\ err' = err
    /\ UNCHANGED <<argv, hub, state_dict, new_state_dict, metadata, bytes,
                   files, stdout, run, completed, snapshot>>

Convert ==
    /\ pc = "convert"
    /\ IF NumpyRaises(Data)
       THEN /\ Raise("TypeError")
            /\ UNCHANGED <<metadata, bytes, i>>
       ELSE /\ metadata' = Metadata(Key, Data)
            /\ bytes' = ToBytes(Data.data, SelectDtype(Key))
            /\ Goto("convert")
            /\ err' = err
    /\ UNCHANGED <<argv, hub, state_dict, new_state_dict, lens, dirs, files,
                   stdout, run, completed, snapshot>>

\* open(path, mode) for writing.
Open(step, path) ==
    /\ pc = step
    /\ IF path \in dirs
       THEN /\ Raise("IsADirectoryError")
            /\ UNCHANGED <<files, i>>
       ELSE /\ files' = Put(path, Truncate(Content(path)))
            /\ Goto(step)
            /\ err' = err
    /\ UNCHANGED <<argv, hub, state_dict, new_state_dict, lens, metadata,
                   bytes, dirs, stdout, run, completed, snapshot>>

\* file.write(data) and the close that ends the with block.
Write(step, path, data) ==
    /\ pc = step
    /\ files' = Put(path, WriteAt(Content(path), data))
    /\ Goto(step)
    /\ UNCHANGED <<argv, hub, state_dict, new_state_dict, lens, metadata,
                   bytes, dirs, stdout, err, run, completed, snapshot>>

OpenMeta == Open("open_meta", MetaPath(Folder))

WriteMeta == Write("write_meta", MetaPath(Folder), Dumps(metadata))

OpenWeights == Open("open_weights", WeightsPath(Folder))

WriteWeights == Write("write_weights", WeightsPath(Folder), bytes)

\* The operating system fails a directory creation, an open or a write
\* (OSError); a failing write may have stored any proper prefix of the data.
IoFault ==
    /\ \/ /\ pc \in {"makedirs", "open_meta", "open_weights"}
          /\ files' = files
       \/ /\ pc = "write_meta"
          /\ \E n \in 0..(Len(Dumps(metadata)) - 1) :
                 files' = Put(MetaPath(Folder),
                              WriteAt(Content(MetaPath(Folder)),
                                      SubSeq(Dumps(metadata), 1, n)))
       \/ /\ pc = "write_weights"
          /\ \E n \in 0..(Len(bytes) - 1) :
                 files' = Put(WeightsPath(Folder),
                              WriteAt(Content(WeightsPath(Folder)),
                                      SubSeq(bytes, 1, n)))
    /\ Raise("OSError")
    /\ UNCHANGED <<argv, hub, state_dict, new_state_dict, i, lens, metadata,
                   bytes, dirs, stdout, run, completed, snapshot>>

\* After a run that reached the end of main, the script is invoked again
\* with the same arguments on the same checkpoint and the same file system.
Rerun ==
    /\ pc = "done"
    /\ run < MaxRuns
    /\ run' = run + 1
    /\ completed' = completed + 1
    /\ snapshot' = files
    /\ pc' = "main"
    /\ state_dict' = <<>>
    /\ new_state_dict' = <<>>
    /\ i' = 1
    /\ lens' = <<>>
    /\ metadata' = <<>>
    /\ bytes' = <<>>
    /\ stdout' = <<>>
    /\ err' = ""
    /\ UNCHANGED <<argv, hub, dirs, files>>

Fresh ==
    /\ pc = "main"
    /\ state_dict = <<>>
    /\ new_state_dict = <<>>
    /\ i = 1
    /\ lens = <<>>
    /\ metadata = <<>>
    /\ bytes = <<>>
    /\ stdout = <<>>
    /\ err = ""
    /\ run = 1
    /\ completed = 0
    /\ snapshot = <<>>

Init ==
    /\ argv \in Argvs
    /\ hub \in Mappings
    /\ dirs = {}
    /\ files = <<>>
    /\ Fresh

\* A single tensor under each assembled name.
InitKeys ==
    /\ argv = <<"convert.py", ModelName>>
    /\ hub \in { << [name |-> n,
                     tensor |-> [shape |-> <<2>>, dtype |-> "float32",
                                 data |-> <<0, 3>>]] >> : n \in FragNames }
    /\ dirs = {}
    /\ files = <<>>
    /\ Fresh

\* What an earlier export of another checkpoint left under every folder.
StaleMeta ==
    Dumps([key |-> "stale", shape |-> <<3, 3>>, is16bit |-> FALSE])
        \o << [member |-> "pad", value |-> 0] >>

StaleWeights == [k \in 1..9 |-> 255]

StaleFolders == { FolderName(ModelName, Normalize(n)) : n \in RunNames }

InitStale ==
    /\ argv \in Argvs
    /\ hub \in Mappings
    /\ dirs = UNION { Ancestors(f) : f \in StaleFolders }
    /\ files = [ p \in { MetaPath(f) : f \in StaleFolders }
                        \cup { WeightsPath(f) : f \in StaleFolders } |->
                    IF p[Len(p)] = "metadata.json" THEN StaleMeta
                    ELSE StaleWeights ]
    /\ Fresh

Next ==
    \/ Main
    \/ Dissect
    \/ Makedirs
    \/ Convert
    \/ OpenMeta
    \/ WriteMeta
    \/ OpenWeights
    \/ WriteWeights
    \/ IoFault
    \/ Rerun

\* One invocation that meets no operating-system failure.
NextKeys ==
    \/ Main
    \/ Dissect
    \/ Makedirs
    \/ Convert
    \/ OpenMeta
    \/ WriteMeta
    \/ OpenWeights
    \/ WriteWeights

\* Invocations on an empty destination.
Spec == Init /\ [][Next]_vars

\* Invocations on a destination that holds an earlier export.
SpecStale == InitStale /\ [][Next]_vars

\* One invocation per assembled tensor name.
SpecKeys == InitKeys /\ [][NextKeys]_vars

----------------------------------------------------------------------------
(* Vocabulary of the properties *)

Dissected == pc \notin {"main", "dissect"}

Prefix == "backbone."

StartsWithPrefix(n) == Len(n) >= Len(Prefix) /\ SubSeq(n, 1, Len(Prefix)) = Prefix

StripPrefix(n) ==
    IF StartsWithPrefix(n) THEN SubSeq(n, Len(Prefix) + 1, Len(n)) ELSE n

MarkerSet == {"embedding", "lm_head", "in_proj", "out_proj", "x_proj"}

HasMarker(key) ==
    \E a \in 1..Len(key) : \E b \in a..Len(key) : SubSeq(key, a, b) \in MarkerSet

RECURSIVE Product(_)
Product(shape) == IF shape = <<>> THEN 1 ELSE Head(shape) * Product(Tail(shape))

Exported == 1..Len(new_state_dict)

KeyOf(k) == new_state_dict[k].key

TensorOf(k) == new_state_dict[k].tensor

MetaFile(k) == MetaPath(FolderName(argv[2], KeyOf(k)))

WeightsFile(k) == WeightsPath(FolderName(argv[2], KeyOf(k)))

Exists(p) == p \in DOMAIN files

MetaComplete(k) ==
    Exists(MetaFile(k)) /\ files[MetaFile(k)] = Dumps(Metadata(KeyOf(k), TensorOf(k)))

WeightsComplete(k) ==
    /\ Exists(WeightsFile(k))
    /\ files[WeightsFile(k)] = ToBytes(TensorOf(k).data, SelectDtype(KeyOf(k)))

\* The member of a metadata.json read back.
Member(p, name) ==
    files[p][CHOOSE k \in 1..Len(files[p]) : files[p][k].member = name].value

ExportRoot == <<"Extra", "converted", ModelName>>

----------------------------------------------------------------------------
(* Properties *)

\* C1: the key normalizer removes "backbone." exactly when the name starts
\* with it (only that leading occurrence) and returns every other name
\* unchanged.
C1_PrefixOnly ==
    Dissected => \A k \in Exported : KeyOf(k) = StripPrefix(hub[k].name)

\* C2: key normalization is idempotent: normalizing a normalized name gives
\* the normalized name again.
C2_Idempotent ==
    Dissected => \A k \in Exported : Normalize(KeyOf(k)) = KeyOf(k)

\* C3: in every written metadata.json, is16bit is true if and only if the
\* name the tensor is exported under contains one of the five markers
\* anywhere (case-sensitively) and key is that name; a tensor without a
\* marker has a payload of 4-byte elements.
C3_Is16bitIffMarker ==
    \A k \in Exported :
        /\ MetaComplete(k) =>
               /\ Member(MetaFile(k), "is16bit") = HasMarker(KeyOf(k))
               /\ Member(MetaFile(k), "key") = KeyOf(k)
        /\ (k < i /\ ~HasMarker(KeyOf(k))) =>
               Len(files[WeightsFile(k)]) = 4 * Len(TensorOf(k).data)

\* C3 witness: a name whose marker only appears once the prefix is removed
\* and the pieces are joined has been exported as 16-bit.
C3_Witness ==
    /\ pc = "done"
    /\ hub[1].name = "backbone.x_proj"
    /\ MetaComplete(1)
    /\ Member(MetaFile(1), "is16bit") = TRUE

\* C4: once the export of a tensor has completed, the length of its
\* weights.bin is the product of the shape in its metadata.json times 2 if
\* is16bit and times 4 otherwise (a rank-0 shape has product 1).
C4_ByteLength ==
    \A k \in Exported :
        k < i =>
            Len(files[WeightsFile(k)]) =
                Product(Member(MetaFile(k), "shape"))
                    * (IF Member(MetaFile(k), "is16bit") THEN 2 ELSE 4)

\* C4 witness: a run has exported a rank-0 tensor at full precision and a
\* two-dimensional tensor at 16 bits.
C4_Witness ==
    /\ pc = "done"
    /\ Len(new_state_dict) = 2
    /\ TensorOf(1).shape = <<>>
    /\ Member(MetaFile(1), "is16bit") = FALSE
    /\ TensorOf(2).shape = <<1, 2>>
    /\ Member(MetaFile(2), "is16bit") = TRUE

\* C5: when two distinct source names normalize to the same key, the
\* collision is reported as an error: the run does not end successfully with
\* one tensor silently replaced by the other.
C5_CollisionReported ==
    (\E a, b \in DOMAIN state_dict :
         /\ a # b
         /\ Normalize(state_dict[a].name) = Normalize(state_dict[b].name))
        => pc # "done"

\* C6: without the model argument the process prints the usage message and
\* ends with a non-zero status, having loaded no model and written no file;
\* with the argument and every tensor exported it ends with status zero.
C6_UsageOnMissingArgument ==
    /\ (Ended /\ Len(argv) < 2) =>
           /\ Usage \in Range(stdout)
           /\ ExitStatus # 0
           /\ state_dict = <<>>
           /\ DOMAIN files = {}
    /\ (pc = "done" /\ Len(argv) = 2) => ExitStatus = 0

\* C7: a run that follows a completed run over the same checkpoint and
\* destination leaves every file exactly as the completed run left it, each
\* file holding exactly the data written last, and no run fails because a
\* directory already exists.
C7_RerunIdentical ==
    /\ err # "FileExistsError"
    /\ pc = "done" =>
           /\ completed >= 1 => files = snapshot
           /\ \A k \in Exported : MetaComplete(k) /\ WeightsComplete(k)

\* C7 witness: the second of two completed runs over two tensors has ended.
C7_Witness ==
    /\ pc = "done"
    /\ run = 2
    /\ completed = 1
    /\ Len(new_state_dict) = 2
    /\ files = snapshot

\* C8: a tensor whose element type is not floating point is not converted:
\* nothing is written for it and the run does not end successfully.
C8_UnsupportedDtype ==
    \A k \in Exported :
        (run = 1 /\ TensorOf(k).dtype \notin {"float16", "float32", "bfloat16"})
            => /\ ~Exists(MetaFile(k))
               /\ ~Exists(WeightsFile(k))
               /\ pc # "done"

\* C9: every directory the export creates for a tensor is the single segment
\* named by the tensor's key directly under the root ("a.b.c", never
\* a/b/c), and every file lies directly inside such a directory.
C9_FlatLayout ==
    Dissected =>
    /\ \A d \in dirs :
           \/ d \in Ancestors(ExportRoot)
           \/ \E k \in Exported : d = ExportRoot \o <<KeyOf(k)>>
    /\ \A p \in DOMAIN files :
           \E k \in Exported :
               \/ p = ExportRoot \o <<KeyOf(k), "metadata.json">>
               \/ p = ExportRoot \o <<KeyOf(k), "weights.bin">>
    /\ \A k \in Exported :
           k < i => /\ ExportRoot \o <<KeyOf(k)>> \in dirs
                    /\ Exists(ExportRoot \o <<KeyOf(k), "metadata.json">>)
                    /\ Exists(ExportRoot \o <<KeyOf(k), "weights.bin">>)

\* C9 witness: the tensor "a.b.c" has been exported.
C9_Witness ==
    /\ pc = "done"
    /\ \E k \in Exported : KeyOf(k) = "a.b.c"
    /\ <<"Extra", "converted", "mamba-130m", "a.b.c", "weights.bin">> \in DOMAIN files

\* C10: during a first run on an empty root, aborted or not, weights.bin
\* exists only beside a completely written metadata.json, at most one tensor
\* has a metadata.json without a complete weights.bin, and no file of a
\* later tensor exists before both files of every earlier tensor are
\* complete.
C10_StepOrder ==
    run = 1 =>
        /\ \A k \in Exported : Exists(WeightsFile(k)) => MetaComplete(k)
        /\ Cardinality({k \in Exported :
                            Exists(MetaFile(k)) /\ ~WeightsComplete(k)}) <= 1
        /\ \A k, l \in Exported :
               (k < l /\ (Exists(MetaFile(l)) \/ Exists(WeightsFile(l))))
                   => MetaComplete(k) /\ WeightsComplete(k)

\* C10 witness: the run was aborted by a failed write of the second
\* tensor's weights.bin, which holds part of the payload.
C10_Witness ==
    /\ run = 1
    /\ pc = "raised"
    /\ err = "OSError"
    /\ i = 2
    /\ MetaComplete(2)
    /\ Exists(WeightsFile(2))
    /\ Len(files[WeightsFile(2)]) > 0
    /\ ~WeightsComplete(2)

====
